---------------------------- MODULE Spec2Model ----------------------------
(***************************************************************************)
(* Mingle: the Socket.io relay (src/src/mingle_server.ts) and the client   *)
(* side WebRTC negotiator (src/public/js/webrtc.js).                       *)
(*                                                                         *)
(* The specifications share the relay's handlers:                          *)
(*   Spec      the relay driven by raw sessions that may emit any payload, *)
(*   MeshSpec  the relay driven by sessions that run the client code,      *)
(*   FairSpec  sessions that stay connected and negotiate, fairly          *)
(*             scheduled,                                                  *)
(*   LiveSpec  FairSpec with every getUserMedia request settling,          *)
(*   PeerSpec  one session that runs the client code among raw sessions,   *)
(*   TwinSpec  the same browsers served by this relay and by the relay of  *)
(*             src/mingle_server.js.                                       *)
(* AdminSpec is the relay with its HTTP configuration API, UiSpec the view *)
(* state of one page (ui_controls.js), BootSpec the start-up of one page,  *)
(* ConfigSpec the configuration API with every kind of request body,       *)
(* MoveSpec one client among sessions that move.                           *)
(***************************************************************************)
EXTENDS Integers, Sequences, FiniteSets, TLC

(***************************************************************************)
(* Bounds of the model.                                                    *)
(***************************************************************************)
\* connections the relay accepts in one behaviour of Spec
MaxConnects == 3

\* sessions running the client code in one behaviour of MeshSpec
MaxClients == 2

\* messages in flight from the relay to one client
MaxInbox == 2

\* ICE candidates one peer connection gathers
MaxCandidates == 1

\* messages in flight from the relay to one client in FairSpec and LiveSpec
LiveInbox == 1

(***************************************************************************)
(* Session ids.  Socket.io assigns every connection a fresh random string; *)
(* the client compares two of them with the JavaScript operator <, that is *)
(* lexicographically by code unit.  An id is a string; IdChars gives its   *)
(* code units.                                                             *)
(***************************************************************************)
IdChars == [AA |-> <<1, 1>>, AB |-> <<1, 2>>, BA |-> <<2, 1>>, BB |-> <<2, 2>>]

IdPool == DOMAIN IdChars

(***************************************************************************)
(* JavaScript values that arrive as the argument of a socket event.        *)
(* js is the kind of value, fields the own enumerable properties (empty    *)
(* unless the value is an object).                                         *)
(***************************************************************************)
Obj(fields) == [js |-> "object", fields |-> fields]

Null == [js |-> "null", fields |-> <<>>]

Undefined == [js |-> "undefined", fields |-> <<>>]

Primitive == [js |-> "number", fields |-> <<>>]

Msg(ev, arg) == [ev |-> ev, arg |-> arg]

NoEvent == [client |-> "", ev |-> "", arg |-> <<>>]

VARIABLES
    sessions,     \* relay: ids of the sockets connected now
    used,         \* relay: ids assigned so far (an id is never assigned twice)
    relayUp,      \* relay: the Node process is running
    lastOp,       \* the handler the relay ran last: [op, from, arg]
    emitted,      \* what that handler emitted: recipient -> sequence of messages
    departures,   \* departures[r][s]: disconnectClient events for s sent to r
    inbox,        \* messages in flight to each session that runs the client
    client,       \* the state of the client code of each such session
    lastEvent,    \* the event a client handled in the last step, if any
    ADMIN_TOKEN,  \* relay: process.env.ADMIN_TOKEN ("" when it is not set)
    worldConfig,  \* relay: the world configuration
    response,     \* relay: the status of the last HTTP response
    ui,           \* the view state of one browser page (ui_controls.js)
    inboxJs,      \* inbox, were the relay src/mingle_server.js
    clientJs,     \* client, were the relay src/mingle_server.js
    boot          \* the start-up of one page (mingle_client.js module body)

relayVars == <<sessions, used, relayUp, lastOp, emitted, departures>>

\* the HTTP side of the relay and the view state of the page
pageVars == <<ADMIN_TOKEN, worldConfig, response, ui, boot>>

\* what no socket listener of the relay and no socket listener of a client
\* it serves reads or writes
offSocket == <<ADMIN_TOKEN, worldConfig, response, ui, inboxJs, clientJs, boot>>

vars == <<sessions, used, relayUp, lastOp, emitted, departures, inbox, client,
          lastEvent, ADMIN_TOKEN, worldConfig, response, ui, inboxJs, clientJs,
          boot>>

(***************************************************************************)
(* Relay: src/src/mingle_server.ts                                         *)
(***************************************************************************)
\* { ...base, ...data }: a property of data replaces the one of base
Spread(base, data) ==
    [f \in (DOMAIN base) \cup (DOMAIN data) |->
        IF f \in DOMAIN data THEN data[f] ELSE base[f]]

\* { a, b } = arg throws a TypeError when arg is null or undefined
DestructureThrows(arg) == arg.js \in {"null", "undefined"}

\* the value bound by destructuring property name ("undefined" when absent)
Prop(arg, name) ==
    IF name \in DOMAIN arg.fields THEN arg.fields[name] ELSE "undefined"

\* a relay that spreads the payload over the stamp: { from: socket.id, ...arg }
Stamp_PayloadWins(s, arg, name) ==
    [f \in {"from"} \cup ((DOMAIN arg.fields) \cap {name}) |->
        IF f \in DOMAIN arg.fields THEN arg.fields[f] ELSE s]

\* { from: socket.id, name }: an undefined property is not serialised
Stamp(s, arg, name) ==
    IF name \in DOMAIN arg.fields
    THEN [from |-> s] @@ (name :> arg.fields[name])
    ELSE [from |-> s]

\* a count taken before the closing connection is taken off
clientsCount_BeforeClose(conn) == Cardinality(conn) + 1

\* io.engine.clientsCount
clientsCount(conn) == Cardinality(conn)

\* io.emit(ev, arg): every connected socket, the sender included
ioEmit(conn, m) == [r \in conn |-> <<m>>]

\* socket.emit(ev, arg) written for socket.broadcast.emit: socket s alone
socketBroadcastEmit_OnlySelf(conn, s, m) ==
    [r \in conn |-> IF r = s THEN <<m>> ELSE <<>>]

\* socket.broadcast.emit(ev, arg): every connected socket but socket s
socketBroadcastEmit(conn, s, m) ==
    [r \in conn |-> IF r = s THEN <<>> ELSE <<m>>]

\* socket.broadcast.emit written for socket.to(to).emit: the room is ignored
socketToEmit_Broadcast(conn, s, to, m) ==
    [r \in conn |-> IF r # s THEN <<m>> ELSE <<>>]

\* socket.emit written for socket.to(to).emit: back to the sender
socketToEmit_OnlySelf(conn, s, to, m) ==
    [r \in conn |-> IF r = s THEN <<m>> ELSE <<>>]

\* a relay that returns a message it cannot route to its sender
socketToEmit_Bounce(conn, s, to, m) ==
    [r \in conn |-> IF (r = to /\ r # s) \/ (r = s /\ to \notin conn)
                    THEN <<m>> ELSE <<>>]

\* socket.to(to).emit(ev, arg): the sockets in room `to` but socket s; the
\* only rooms are the ones every socket joins under its own id
socketToEmit(conn, s, to, m) ==
    [r \in conn |-> IF r = to /\ r # s THEN <<m>> ELSE <<>>]

\* two emits of one handler, in order
Then(e1, e2) == [r \in DOMAIN e1 |-> e1[r] \o e2[r]]

\* the number of disconnectClient events for id s in a sequence of messages
DepartureCount(q, s) ==
    Cardinality({i \in 1..Len(q) :
                    q[i].ev = "disconnectClient" /\ q[i].arg.id = s})

\* a transport that hands a socket its newest message first
TransmitTo_NewestFirst(box, em) ==
    /\ \A c \in (DOMAIN box) \cap (DOMAIN em) :
          Len(box[c]) + Len(em[c]) <= MaxInbox
    /\ emitted' = em
    /\ departures' =
          [r \in IdPool |-> [s \in IdPool |->
              departures[r][s]
                + (IF r \in DOMAIN em THEN DepartureCount(em[r], s) ELSE 0)]]
    /\ inbox' = [c \in (DOMAIN box) \cap (DOMAIN em) |-> em[c] \o box[c]]

\* the handler's emissions reach the sockets: counted, and queued for the
\* sessions that run the client (box: their queues before the emission)
TransmitTo(box, em) ==
    /\ \A c \in (DOMAIN box) \cap (DOMAIN em) :
          Len(box[c]) + Len(em[c]) <= MaxInbox
    /\ emitted' = em
    /\ departures' =
          [r \in IdPool |-> [s \in IdPool |->
              departures[r][s]
                + (IF r \in DOMAIN em THEN DepartureCount(em[r], s) ELSE 0)]]
    /\ inbox' = [c \in (DOMAIN box) \cap (DOMAIN em) |-> box[c] \o em[c]]

\* io.on('connection'): a fresh id, then the live count to everybody
OnConnection(id, box) ==
    /\ relayUp
    /\ id \in IdPool \ used
    /\ sessions' = sessions \cup {id}
    /\ used' = used \cup {id}
    /\ lastOp' = [op |-> "connection", from |-> id, arg |-> Undefined]
    /\ TransmitTo(box, ioEmit(sessions', Msg("clientCount",
                                [count |-> clientsCount(sessions')])))
    /\ UNCHANGED relayUp

\* an exception thrown by a listener is not caught anywhere: the process ends
\* and with it every connection
Crash(s, ev, arg) ==
    /\ relayUp' = FALSE
    /\ sessions' = {}
    /\ lastOp' = [op |-> ev, from |-> s, arg |-> arg]
    /\ emitted' = <<>>
    /\ inbox' = <<>>
    /\ UNCHANGED <<used, departures>>

\* a position listener that destructures its argument: ({ position }) => ...
OnPosition_Destructures(s, data, box) ==
    /\ relayUp
    /\ s \in sessions
    /\ IF DestructureThrows(data)
       THEN Crash(s, "position", data)
       ELSE /\ lastOp' = [op |-> "position", from |-> s, arg |-> data]
            /\ TransmitTo(box, ioEmit(sessions,
                            Msg("position", Spread([id |-> s], data.fields))))
            /\ UNCHANGED <<sessions, used, relayUp>>

\* the relay of src/mingle_server.js: socket.broadcast.emit('position', ...)
OnPosition_ExcludeSender(s, data, box) ==
    /\ relayUp
    /\ s \in sessions
    /\ lastOp' = [op |-> "position", from |-> s, arg |-> data]
    /\ TransmitTo(box, socketBroadcastEmit(sessions, s,
                    Msg("position", Spread([id |-> s], data.fields))))
    /\ UNCHANGED <<sessions, used, relayUp>>

\* socket.on('position')
OnPosition(s, data, box) ==
    /\ relayUp
    /\ s \in sessions
    /\ lastOp' = [op |-> "position", from |-> s, arg |-> data]
    /\ TransmitTo(box, ioEmit(sessions,
                    Msg("position", Spread([id |-> s], data.fields))))
    /\ UNCHANGED <<sessions, used, relayUp>>

\* socket.on('rtc-offer'), socket.on('rtc-answer'), socket.on('ice-candidate'):
\* ({ to, name }) => socket.to(to).emit(ev, { from: socket.id, name })
OnSignal(s, ev, name, arg, box) ==
    /\ relayUp
    /\ s \in sessions
    /\ IF DestructureThrows(arg)
       THEN Crash(s, ev, arg)
       ELSE /\ lastOp' = [op |-> ev, from |-> s, arg |-> arg]
            /\ TransmitTo(box, socketToEmit(sessions, s, Prop(arg, "to"),
                                          Msg(ev, Stamp(s, arg, name))))
            /\ UNCHANGED <<sessions, used, relayUp>>

OnRtcOffer(s, arg, box) == OnSignal(s, "rtc-offer", "offer", arg, box)

OnRtcAnswer(s, arg, box) == OnSignal(s, "rtc-answer", "answer", arg, box)

OnIceCandidate(s, arg, box) == OnSignal(s, "ice-candidate", "candidate", arg, box)

\* socket.on('disconnect'): the socket has left its rooms when this runs
OnDisconnect(s, box) ==
    /\ relayUp
    /\ s \in sessions
    /\ sessions' = sessions \ {s}
    /\ lastOp' = [op |-> "disconnect", from |-> s, arg |-> Undefined]
    /\ TransmitTo(box, Then(
          socketBroadcastEmit(sessions', s, Msg("disconnectClient", [id |-> s])),
          ioEmit(sessions', Msg("clientCount", [count |-> clientsCount(sessions')]))))
    /\ UNCHANGED <<used, relayUp>>

(***************************************************************************)
(* Raw sessions: what any program holding a socket can put on the wire.    *)
(***************************************************************************)
Positions == {0, 1}

Sdp == {"sdp1", "sdp2"}

\* routing keys a raw session can name: every id, and a string that is none
Routes == IdPool \cup {"nobody"}

\* a rotation as the relay sees it: the JavaScript type of each component
Numeric == [x |-> "number", y |-> "number", z |-> "number"]

Malformed == [x |-> "string", y |-> "number", z |-> "number"]

PositionArgs ==
    {Obj([position |-> p]) : p \in Positions}
      \cup {Obj([position |-> 0, rotation |-> q]) : q \in {Numeric, Malformed}}
      \cup {Obj([id |-> x, position |-> 0]) : x \in IdPool}
      \cup {Obj(<<>>), Null, Undefined, Primitive}

SignalArgs(name) ==
    {Obj(("to" :> t) @@ (name :> "sdp1")) : t \in Routes}
      \cup {Obj(("to" :> t) @@ (name :> "sdp2") @@ ("from" :> t)) : t \in IdPool}
      \cup {Obj(name :> "sdp1"), Null, Undefined, Primitive}

Connect ==
    /\ Cardinality(used) < MaxConnects
    /\ \E id \in IdPool : OnConnection(id, inbox)
    /\ UNCHANGED <<client, lastEvent, offSocket>>

Disconnect ==
    /\ \E s \in sessions : OnDisconnect(s, inbox)
    /\ UNCHANGED <<client, lastEvent, offSocket>>

RawPosition ==
    /\ \E s \in sessions, a \in PositionArgs : OnPosition(s, a, inbox)
    /\ UNCHANGED <<client, lastEvent, offSocket>>

RawRtcOffer ==
    /\ \E s \in sessions, a \in SignalArgs("offer") : OnRtcOffer(s, a, inbox)
    /\ UNCHANGED <<client, lastEvent, offSocket>>

RawRtcAnswer ==
    /\ \E s \in sessions, a \in SignalArgs("answer") : OnRtcAnswer(s, a, inbox)
    /\ UNCHANGED <<client, lastEvent, offSocket>>

RawIceCandidate ==
    /\ \E s \in sessions, a \in SignalArgs("candidate") : OnIceCandidate(s, a, inbox)
    /\ UNCHANGED <<client, lastEvent, offSocket>>

\* const worldConfig = { worldName: 'Mingle World', maxParticipants: 20,
\* worldGeometry: 'plane', worldColor: '#00aaff', ... }: four of its fields,
\* one of each kind of validation; a number is written as its digits
DefaultWorldConfig ==
    [worldName |-> "Mingle World", maxParticipants |-> "20", worldGeometry |-> "plane",
     worldColor |-> "#00aaff"]

\* ui_controls.js, the module state once initUIControls has run
InitialUi ==
    [currentMode |-> "null", spectating |-> FALSE, activeCamera |-> "playerCamera",
     checked |-> FALSE, currentView |-> "high", menuHidden |-> FALSE,
     avatarVisible |-> FALSE, connectedClients |-> 1]

\* a page whose module script has not run yet
NotLoaded ==
    [loaded |-> FALSE, socket |-> FALSE, webrtc |-> "off", movement |-> FALSE,
     notice |-> FALSE, id |-> ""]

\* the relay started with ADMIN_TOKEN = token, and one page loaded
Start(token) ==
    /\ boot = NotLoaded
    /\ ADMIN_TOKEN = token
    /\ worldConfig = DefaultWorldConfig
    /\ response = 0
    /\ ui = InitialUi
    /\ sessions = {}
    /\ used = {}
    /\ relayUp = TRUE
    /\ lastOp = [op |-> "init", from |-> "", arg |-> Undefined]
    /\ emitted = <<>>
    /\ departures = [r \in IdPool |-> [s \in IdPool |-> 0]]
    /\ inbox = <<>>
    /\ client = <<>>
    /\ lastEvent = NoEvent
    /\ inboxJs = <<>>
    /\ clientJs = <<>>

\* the socket listeners do not read ADMIN_TOKEN: one value stands for all
Init == Start("secret")

Next ==
    \/ Connect
    \/ Disconnect
    \/ RawPosition
    \/ RawRtcOffer
    \/ RawRtcAnswer
    \/ RawIceCandidate

Spec == Init /\ [][Next]_vars

(***************************************************************************)
(* The admin API of the relay: GET and POST /world-config.                 *)
(***************************************************************************)
\* a JSON value of the request body: its typeof and its text
Str(v) == [t |-> "string", v |-> v]

Num(v) == [t |-> "number", v |-> v]

\* req.header('x-admin-token') when the request has no such header
NoHeader == "undefined"

\* the values of ADMIN_TOKEN: not set, set
AdminTokens == {"", "secret"}

\* the x-admin-token headers a request can carry
Headers == {"secret", "guess", "", NoHeader}

\* request bodies: fields of the right type, of the wrong type, a geometry
\* that is not allowed, no field
Bodies ==
    {Obj([worldName |-> Str("Lobby")]),
     Obj([worldName |-> Num("7")]),
     Obj([maxParticipants |-> Num("5")]),
     Obj([worldGeometry |-> Str("cube")]),
     Obj([worldGeometry |-> Str("torus")]),
     Obj([worldName |-> Str("Lobby"), worldGeometry |-> Str("sphere")]),
     Obj(<<>>)}

\* request bodies that carry a colour: well formed, one character too long,
\* without the '#', with a letter that is no hexadecimal digit, a number, and
\* a well formed one next to a geometry that is not allowed
ColorBodies ==
    {Obj([worldColor |-> Str("#1A2b3C")]),
     Obj([worldColor |-> Str("#1A2b3C0")]),
     Obj([worldColor |-> Str("1A2b3C")]),
     Obj([worldColor |-> Str("#1A2b3G")]),
     Obj([worldColor |-> Num("7")]),
     Obj([worldGeometry |-> Str("torus"), worldColor |-> Str("#1A2b3C")])}

\* the characters of the colour strings of the model
ColorChars ==
    ("#00aaff" :> <<"#", "0", "0", "a", "a", "f", "f">>)
      @@ ("#1A2b3C" :> <<"#", "1", "A", "2", "b", "3", "C">>)
      @@ ("#1A2b3C0" :> <<"#", "1", "A", "2", "b", "3", "C", "0">>)
      @@ ("1A2b3C" :> <<"1", "A", "2", "b", "3", "C">>)
      @@ ("#1A2b3G" :> <<"#", "1", "A", "2", "b", "3", "G">>)

\* [0-9a-fA-F]
HexDigits ==
    {"0", "1", "2", "3", "4", "5", "6", "7", "8", "9",
     "a", "b", "c", "d", "e", "f", "A", "B", "C", "D", "E", "F"}

\* #[0-9a-fA-F]{6} matches the characters of cs from the i-th on
MatchesAt(cs, i) ==
    /\ i + 6 <= Len(cs)
    /\ cs[i] = "#"
    /\ \A k \in 1..6 : cs[i + k] \in HexDigits

\* the test without its anchors: /#[0-9a-fA-F]{6}/.test(s)
hexColorTest_Unanchored(s) ==
    \E i \in 1..Len(ColorChars[s]) : MatchesAt(ColorChars[s], i)

\* /^#[0-9a-fA-F]{6}$/.test(s)
hexColorTest(s) ==
    MatchesAt(ColorChars[s], 1) /\ Len(ColorChars[s]) = 7

allowedGeometries == {"plane", "cube", "sphere"}

\* the typeof test (and the list of geometries, the pattern of colours) that
\* guards each assignment
Accepts(f, x) ==
    CASE f = "worldName" -> x.t = "string"
      [] f = "maxParticipants" -> x.t = "number"
      [] f = "worldGeometry" -> x.t = "string" /\ x.v \in allowedGeometries
      [] f = "worldColor" -> x.t = "string" /\ hexColorTest(x.v)

\* the configuration after the assignments of the POST handler
Assign(cfg, body) ==
    [f \in DOMAIN cfg |->
        IF f \in DOMAIN body.fields /\ Accepts(f, body.fields[f])
        THEN body.fields[f].v
        ELSE cfg[f]]

\* a middleware that lets every request through that carries the header
verifyAdmin_AnyToken(token) ==
    IF ADMIN_TOKEN = "" THEN 503
    ELSE IF token = NoHeader THEN 401
    ELSE 0

\* verifyAdmin: the status it answers with, 0 when it calls next()
verifyAdmin(token) ==
    IF ADMIN_TOKEN = "" THEN 503
    ELSE IF token # ADMIN_TOKEN THEN 401
    ELSE 0

\* the sockets are sent nothing
Silence(conn) == [r \in conn |-> <<>>]

\* POST /world-config with header token and JSON body; the route exists
\* only when ADMIN_TOKEN is set, Express answers 404 otherwise
Post(token, body) ==
    /\ relayUp
    /\ lastOp' = [op |-> "POST /world-config", from |-> token, arg |-> body]
    /\ IF ADMIN_TOKEN = ""
       THEN /\ response' = 404
            /\ TransmitTo(inbox, Silence(sessions))
            /\ UNCHANGED worldConfig
       ELSE IF verifyAdmin(token) # 0
       THEN /\ response' = verifyAdmin(token)
            /\ TransmitTo(inbox, Silence(sessions))
            /\ UNCHANGED worldConfig
       ELSE /\ worldConfig' = Assign(worldConfig, body)
            /\ TransmitTo(inbox, ioEmit(sessions,
                            Msg("updateAvatars", Assign(worldConfig, body))))
            /\ response' = 200
    /\ UNCHANGED <<sessions, used, relayUp, client, lastEvent, ADMIN_TOKEN, ui,
                   inboxJs, clientJs, boot>>

PostWorldConfig == \E token \in Headers, body \in Bodies : Post(token, body)

\* GET /world-config: res.json(worldConfig), no token asked for
GetWorldConfig ==
    /\ relayUp
    /\ lastOp' = [op |-> "GET /world-config", from |-> "", arg |-> Undefined]
    /\ response' = 200
    /\ TransmitTo(inbox, Silence(sessions))
    /\ UNCHANGED <<sessions, used, relayUp, client, lastEvent, ADMIN_TOKEN,
                   worldConfig, ui, inboxJs, clientJs, boot>>

AdminInit == \E token \in AdminTokens : Start(token)

AdminNext ==
    \/ Connect
    \/ Disconnect
    \/ PostWorldConfig
    \/ GetWorldConfig

AdminSpec == AdminInit /\ [][AdminNext]_vars

\* POST /world-config with a colour in its body
PostWorldColor == \E token \in Headers, body \in ColorBodies : Post(token, body)

\* the configuration API with every kind of body, before sessions that stay
ConfigNext ==
    \/ Connect
    \/ PostWorldConfig
    \/ PostWorldColor
    \/ GetWorldConfig

ConfigSpec == AdminInit /\ [][ConfigNext]_vars

(***************************************************************************)
(* The view controls of the page: ui_controls.js.                          *)
(***************************************************************************)
MODE_FPV == "FPV"

MODE_SPECTATOR == "Spectator"

MODE_LAKITU == "Lakitu"

\* the data-mode values of the buttons of the start menu
ModeButtons == {"fpv", "spectator", "lakitu"}

\* the keys of the VIEWPOINTS table
Viewpoints == {"high", "ground", "top"}

\* e.key of the keys a user presses: P with and without shift, another key
Keys == {"p", "P", "w"}

\* e.key.toLowerCase()
toLowerCase(k) == IF k = "P" THEN "p" ELSE k

\* setSpectateMode(enabled)
setSpectateMode(u, enabled) ==
    [u EXCEPT !.spectating = enabled,
              !.activeCamera = IF enabled THEN "spectateCam" ELSE "playerCamera",
              !.avatarVisible = enabled,
              !.checked = enabled]

\* the mode a spectating flag stands for
modeOf(u) == IF u.spectating THEN MODE_SPECTATOR ELSE MODE_FPV

\* a selectMode whose FPV branch does not call setSpectateMode(false)
selectMode_KeepsSpectate(u, mode) ==
    LET m == IF mode = "fpv" THEN MODE_FPV
             ELSE IF mode = "spectator" THEN MODE_SPECTATOR
             ELSE MODE_LAKITU
        v == [u EXCEPT !.currentMode = m, !.menuHidden = TRUE]
    IN  IF m = MODE_SPECTATOR THEN setSpectateMode(v, TRUE)
        ELSE IF m = MODE_LAKITU
        THEN [setSpectateMode(v, FALSE) EXCEPT !.avatarVisible = TRUE]
        ELSE v

\* selectMode(mode)
selectMode(u, mode) ==
    LET m == IF mode = "fpv" THEN MODE_FPV
             ELSE IF mode = "spectator" THEN MODE_SPECTATOR
             ELSE MODE_LAKITU
        v == [u EXCEPT !.currentMode = m, !.menuHidden = TRUE]
    IN  IF m = MODE_SPECTATOR THEN setSpectateMode(v, TRUE)
        ELSE IF m = MODE_LAKITU
        THEN [setSpectateMode(v, FALSE) EXCEPT !.avatarVisible = TRUE]
        ELSE setSpectateMode(v, FALSE)

\* the change listener of the spectate checkbox; u.checked is the value the
\* user has just given the box
onSpectateToggle(u) ==
    IF u.currentMode = MODE_LAKITU
    THEN [u EXCEPT !.checked = FALSE]
    ELSE LET v == setSpectateMode(u, u.checked)
         IN  [v EXCEPT !.currentMode = modeOf(v)]

\* a keydown listener that toggles in every mode
onKeydown_AnyMode(u, key) ==
    IF toLowerCase(key) = "p"
    THEN LET v == setSpectateMode(u, ~u.spectating)
         IN  [v EXCEPT !.currentMode = modeOf(v)]
    ELSE u

\* the keydown listener of the document
onKeydown(u, key) ==
    IF toLowerCase(key) = "p" /\ u.currentMode # MODE_LAKITU
    THEN LET v == setSpectateMode(u, ~u.spectating)
         IN  [v EXCEPT !.currentMode = modeOf(v)]
    ELSE u

\* an event of the page: the listener runs, the sockets are not involved
PageEvent(ev, arg, u) ==
    /\ ui' = u
    /\ lastEvent' = [client |-> "page", ev |-> ev, arg |-> arg]
    /\ UNCHANGED <<relayVars, inbox, client, ADMIN_TOKEN, worldConfig, response,
                   inboxJs, clientJs, boot>>

\* a button of the start menu is clicked; selectMode hides the menu
ModeClick ==
    \E mode \in ModeButtons :
        /\ ~ui.menuHidden
        /\ PageEvent("click", mode, selectMode(ui, mode))

\* the user changes the spectate checkbox
SpectateChange ==
    PageEvent("change", "spectateToggle", onSpectateToggle([ui EXCEPT !.checked = ~@]))

\* the user checks a viewpoint radio
ViewpointChange ==
    \E view \in Viewpoints :
        PageEvent("change", view, [ui EXCEPT !.currentView = view])

\* the user presses a key
Keydown == \E key \in Keys : PageEvent("keydown", key, onKeydown(ui, key))

\* setConnectedClients(count), called for a clientCount event of the socket
CountChange ==
    \E count \in 1..MaxConnects :
        PageEvent("clientCount", count, [ui EXCEPT !.connectedClients = count])

UiNext ==
    \/ ModeClick
    \/ CountChange
    \/ SpectateChange
    \/ ViewpointChange
    \/ Keydown

UiSpec == Init /\ [][UiNext]_vars

(***************************************************************************)
(* Client: src/public/js/webrtc.js.  A handler is a function from the      *)
(* client's state and the event's argument to the new state and the        *)
(* messages it emits.  An async handler runs up to the await it suspends   *)
(* at; what remains of it is kept in tasks.                                *)
(***************************************************************************)
RECURSIVE LexLess(_, _)
\* a < b on strings: by code unit, a proper prefix being the smaller
LexLess(a, b) ==
    IF b = <<>> THEN FALSE
    ELSE IF a = <<>> THEN TRUE
    ELSE IF a[1] # b[1] THEN a[1] < b[1]
    ELSE LexLess(Tail(a), Tail(b))

\* socket.id !== data.id written for socket.id < data.id
IdLess_Differs(x, y) == x # y

\* a comparison that makes nobody the initiator
IdLess_Never(x, y) == FALSE

\* socket.id < data.id
IdLess(x, y) == LexLess(IdChars[x], IdChars[y])

\* a session description: its type and whether it sends tracks
Description(type, tracks) == [type |-> type, tracks |-> tracks]

\* new RTCPeerConnection(...); media: the descriptions have a media section;
\* attempts: the calls of createOffer on it by the position handler; offers:
\* the rtc-offer messages emitted for it
NewPc(id) ==
    [peer |-> id, closed |-> FALSE, tracks |-> FALSE, wired |-> FALSE,
     local |-> "none", remote |-> "none", media |-> FALSE,
     candidates |-> <<>>, gathered |-> 0, attempts |-> 0, offers |-> 0]

\* initWebRTC: no peer connection, no avatar, getUserMedia pending; latest:
\* the position of the transform received last from each remote that has an
\* avatar
NewClient(id) ==
    [id |-> id, localStream |-> "pending", pcs |-> <<>>,
     peerConnections |-> <<>>, remotes |-> <<>>, videoEls |-> <<>>,
     tasks |-> <<>>, unapplied |-> {}, connectedClients |-> 0, latest |-> <<>>]

Without(f, x) == [y \in (DOMAIN f) \ {x} |-> f[y]]

Done(st) == [st |-> st, out |-> <<>>]

Emit(st, m) == [st |-> st, out |-> <<m>>]

Suspend(st, t) == Done([st EXCEPT !.tasks = Append(@, t)])

\* tracks: whether the description the listener holds (the offer it was
\* given, then the answer it created) sends tracks
Task(kind, id, pc, position, tracks) ==
    [kind |-> kind, id |-> id, pc |-> pc, at |-> "media", position |-> position,
     tracks |-> tracks]

\* a createPeerConnection without the line `peerConnections[id] = pc`
createPeerConnection_NoInsert(st, id) ==
    [st EXCEPT !.pcs = Append(@, NewPc(id))]

\* createPeerConnection up to its await: the new connection is in the table
createPeerConnection(st, id) ==
    [st EXCEPT !.pcs = Append(@, NewPc(id)),
               !.peerConnections = (id :> (Len(st.pcs) + 1)) @@ @]

\* createPeerConnection after its await: addTrack for each local track (none
\* if getUserMedia failed; addTrack throws on a closed connection, which the
\* catch swallows), then ontrack and onicecandidate are set
attachTracks(st, h) ==
    [st EXCEPT !.pcs[h] =
        [@ EXCEPT !.tracks = (st.localStream = "granted" /\ ~st.pcs[h].closed),
                  !.wired = TRUE]]

\* remote.avatar.setAttribute('position', data.position); an avatar that was
\* removed meanwhile is no longer in the scene
applyTransform(st, t) ==
    IF t.id \in DOMAIN st.remotes
    THEN [st EXCEPT !.remotes[t.id] = [position |-> t.position]]
    ELSE st

\* the position handler once createPeerConnection has returned pc
positionOffer(st, t) ==
    IF IdLess(st.id, t.id)
    THEN IF st.pcs[t.pc].closed
         THEN Done(applyTransform(st, t))
         ELSE Suspend([st EXCEPT !.pcs[t.pc].attempts = @ + 1],
                      [t EXCEPT !.at = "createOffer"])
    ELSE Done(applyTransform(st, t))

\* a position handler without the line `if (data.id === socket.id) return`
onPosition_NoSelfFilter(st, data) ==
    LET id == data.id
        st0 == [st EXCEPT !.latest = (id :> data.position) @@ @]
        st1 == IF id \in DOMAIN st0.remotes THEN st0
               ELSE [st0 EXCEPT !.remotes = (id :> [position |-> 0]) @@ @,
                                !.videoEls = (id :> 1) @@ @]
        t == Task("position", id, Len(st.pcs) + 1, data.position, FALSE)
    IN  IF id \in DOMAIN st1.peerConnections
        THEN Done(applyTransform(st1, t))
        ELSE LET st2 == createPeerConnection(st1, id)
             IN  IF st2.localStream = "pending"
                 THEN Suspend(st2, t)
                 ELSE positionOffer(attachTracks(st2, t.pc), t)

\* socket.on('position')
onPosition(st, data) ==
    IF data.id = st.id
    THEN Done(st)
    ELSE LET id == data.id
             st0 == [st EXCEPT !.latest = (id :> data.position) @@ @]
             st1 == IF id \in DOMAIN st0.remotes THEN st0
                    ELSE [st0 EXCEPT
                            !.remotes = (id :> [position |-> 0]) @@ @,
                            !.videoEls = (id :> (IF id \in DOMAIN @
                                                 THEN @[id] + 1 ELSE 1)) @@ @]
             t == Task("position", id, Len(st.pcs) + 1, data.position, FALSE)
         IN  IF id \in DOMAIN st1.peerConnections
             THEN Done(applyTransform(st1, t))
             ELSE LET st2 == createPeerConnection(st1, id)
                  IN  IF st2.localStream = "pending"
                      THEN Suspend(st2, t)
                      ELSE positionOffer(attachTracks(st2, t.pc), t)

\* pc.ontrack, fired while a remote description that sends tracks is set on
\* a connection that has the listener: the video element for the peer is
\* looked up by its id and created when there is none
ontrack(st, h, tracks) ==
    LET id == st.pcs[h].peer
    IN  IF tracks /\ st.pcs[h].wired /\ id \notin DOMAIN st.videoEls
        THEN [st EXCEPT !.videoEls = (id :> 1) @@ @]
        ELSE st

\* the rtc-offer handler from `await pc.setRemoteDescription(offer)`: the
\* call takes effect in the connection's operation chain at once; it is
\* rejected unless the connection is open and in the stable state
offerSetRemote(st, t) ==
    LET pc == st.pcs[t.pc]
    IN  IF pc.closed \/ pc.local # "none" \/ pc.remote # "none"
        THEN Done(st)
        ELSE Suspend(ontrack([st EXCEPT !.pcs[t.pc].remote = "offer",
                                        !.pcs[t.pc].media = t.tracks],
                             t.pc, t.tracks),
                     [t EXCEPT !.at = "setRemote"])

\* an rtc-offer listener that starts with
\* `const pc = await createPeerConnection(from)`
onRtcOffer_AlwaysCreates(st, arg) ==
    LET st2 == createPeerConnection(st, arg.from)
        t == Task("offer", arg.from, Len(st.pcs) + 1, 0, arg.offer.tracks)
    IN  IF st2.localStream = "pending"
        THEN Suspend(st2, t)
        ELSE offerSetRemote(attachTracks(st2, t.pc), t)

\* socket.on('rtc-offer')
onRtcOffer(st, arg) ==
    IF arg.from \in DOMAIN st.peerConnections
    THEN offerSetRemote(st, Task("offer", arg.from, st.peerConnections[arg.from],
                                 0, arg.offer.tracks))
    ELSE LET st2 == createPeerConnection(st, arg.from)
             t == Task("offer", arg.from, Len(st.pcs) + 1, 0, arg.offer.tracks)
         IN  IF st2.localStream = "pending"
             THEN Suspend(st2, t)
             ELSE offerSetRemote(attachTracks(st2, t.pc), t)

\* socket.on('rtc-answer')
onRtcAnswer(st, arg) ==
    IF arg.from \in DOMAIN st.peerConnections
    THEN LET h == st.peerConnections[arg.from]
             pc == st.pcs[h]
         IN  IF ~pc.closed /\ pc.local = "offer" /\ pc.remote = "none"
             THEN Done(ontrack([st EXCEPT !.pcs[h].remote = "answer"],
                               h, arg.answer.tracks))
             ELSE Done(st)
    ELSE Done(st)

\* socket.on('ice-candidate'): nothing is done without a connection for the
\* sender; addIceCandidate is rejected while the connection has no remote
\* description, and the rejection is only logged.  unapplied records the
\* candidates that went either way.
onIceCandidate(st, arg) ==
    IF "candidate" \notin DOMAIN arg
    THEN Done(st)
    ELSE IF arg.from \in DOMAIN st.peerConnections
              /\ st.pcs[st.peerConnections[arg.from]].remote # "none"
         THEN Done([st EXCEPT !.pcs[st.peerConnections[arg.from]].candidates =
                                 Append(@, arg.candidate)])
         ELSE Done([st EXCEPT !.unapplied = @ \cup {<<arg.from, arg.candidate>>}])

\* socket.on('disconnectClient').  An operation pending on a connection that
\* is closed never settles, so the handlers awaiting one never resume.
onDisconnectClient(st, arg) ==
    LET id == arg.id
        h == IF id \in DOMAIN st.peerConnections THEN st.peerConnections[id] ELSE 0
    IN  Done([st EXCEPT
          !.remotes = Without(@, id),
          !.latest = Without(@, id),
          !.pcs = [i \in DOMAIN @ |->
                      IF i = h THEN [@[i] EXCEPT !.closed = TRUE] ELSE @[i]],
          !.peerConnections = Without(@, id),
          !.videoEls = IF id \in DOMAIN @
                       THEN (IF @[id] > 1 THEN [@ EXCEPT ![id] = @ - 1]
                             ELSE Without(@, id))
                       ELSE @,
          !.tasks = SelectSeq(@, LAMBDA t : t.pc # h \/ t.at = "media")])

\* socket.on('clientCount')
onClientCount(st, arg) == Done([st EXCEPT !.connectedClients = arg.count])

\* a suspended handler whose awaited operation has completed runs on to its
\* next await
resume(st, t) ==
    LET pc == st.pcs[t.pc]
    IN  CASE t.kind = "position" /\ t.at = "createOffer" ->
               \* await pc.setLocalDescription(offer), inside try
               IF pc.local # "none" \/ pc.remote # "none"
               THEN Done(applyTransform(st, t))
               ELSE Suspend([st EXCEPT !.pcs[t.pc].local = "offer",
                                       !.pcs[t.pc].media = pc.tracks],
                            [t EXCEPT !.at = "setLocal"])
          [] t.kind = "position" /\ t.at = "setLocal" ->
               Emit(applyTransform([st EXCEPT !.pcs[t.pc].offers = @ + 1], t),
                    Msg("rtc-offer",
                        Obj([to |-> t.id,
                             offer |-> Description("offer", pc.media)])))
          [] t.kind = "offer" /\ t.at = "setRemote" ->
               \* await pc.createAnswer()
               IF pc.remote # "offer"
               THEN Done(st)
               ELSE Suspend(st, [t EXCEPT !.at = "createAnswer",
                                          !.tracks = pc.media /\ pc.tracks])
          [] t.kind = "offer" /\ t.at = "createAnswer" ->
               \* await pc.setLocalDescription(answer)
               IF pc.remote # "offer" \/ pc.local # "none"
               THEN Done(st)
               ELSE Suspend([st EXCEPT !.pcs[t.pc].local = "answer"],
                            [t EXCEPT !.at = "setLocalAnswer"])
          [] t.kind = "offer" /\ t.at = "setLocalAnswer" ->
               Emit(st, Msg("rtc-answer",
                            Obj([to |-> t.id,
                                 answer |-> Description("answer", t.tracks)])))

\* an error handler that tears every connection down
reject_ClosesAll(st, t) ==
    Done([st EXCEPT !.pcs = [i \in DOMAIN @ |-> [@[i] EXCEPT !.closed = TRUE]],
                    !.peerConnections = <<>>])

\* the operation a suspended handler awaits is rejected (st: the client
\* without the handler's task t).  A description that was being set is not
\* set.  In the position handler the catch around createOffer,
\* setLocalDescription and the emit logs the error and the handler goes on to
\* move the avatar; the rtc-offer handler has no catch and ends there.
reject(st, t) ==
    CASE t.kind = "position" /\ t.at = "createOffer" ->
               Done(applyTransform(st, t))
      [] t.kind = "position" /\ t.at = "setLocal" ->
               Done(applyTransform([st EXCEPT !.pcs[t.pc].local = "none",
                                              !.pcs[t.pc].media = FALSE], t))
      [] t.kind = "offer" /\ t.at = "createAnswer" ->
               Done(st)
      [] t.kind = "offer" /\ t.at = "setLocalAnswer" ->
               Done([st EXCEPT !.pcs[t.pc].local = "none"])

\* the awaits whose rejection is followed
Rejectable == {"createOffer", "setLocal", "createAnswer", "setLocalAnswer"}

RECURSIVE afterMedia(_, _)
\* the handlers awaiting localStreamPromise continue, in the order they
\* began to wait, before any other event is handled
afterMedia(st, ts) ==
    IF ts = <<>> THEN st
    ELSE LET t == Head(ts)
             st1 == attachTracks(st, t.pc)
             r == IF t.kind = "position" THEN positionOffer(st1, t)
                  ELSE offerSetRemote(st1, t)
         IN  afterMedia(r.st, Tail(ts))

\* a denial that is never reported to the listeners that wait for the
\* stream: a localStreamPromise that stays pending when getUserMedia fails
settle_DenialBlocks(st, outcome) ==
    IF outcome = "denied"
    THEN [st EXCEPT !.localStream = outcome]
    ELSE afterMedia([st EXCEPT !.localStream = outcome,
                               !.tasks = SelectSeq(@, LAMBDA t : t.at # "media")],
                    SelectSeq(st.tasks, LAMBDA t : t.at = "media"))

\* localStreamPromise settles: getUserMedia granted or denied
settle(st, outcome) ==
    afterMedia([st EXCEPT !.localStream = outcome,
                          !.tasks = SelectSeq(@, LAMBDA t : t.at # "media")],
               SelectSeq(st.tasks, LAMBDA t : t.at = "media"))

CandidateNames == <<"c1", "c2", "c3", "c4">>

\* the positions a client reports (an avatar starts at 0)
TickPositions == {1}

(***************************************************************************)
(* The mesh: sessions that run the client, the relay between them.         *)
(***************************************************************************)
Clients == DOMAIN client

\* socket.emit(ev, arg) of a client: the relay's listener for ev runs
\* (box: the queues before the relay's emission)
Send(c, m, box) ==
    CASE m.ev = "position" -> OnPosition(c, m.arg, box)
      [] m.ev = "rtc-offer" -> OnRtcOffer(c, m.arg, box)
      [] m.ev = "rtc-answer" -> OnRtcAnswer(c, m.arg, box)
      [] m.ev = "ice-candidate" -> OnIceCandidate(c, m.arg, box)

\* a step of client c with result r; a handler emits at most one message
Run(c, r, box) ==
    /\ client' = [client EXCEPT ![c] = r.st]
    /\ IF r.out = <<>>
       THEN inbox' = box /\ UNCHANGED relayVars
       ELSE Send(c, r.out[1], box)

\* the client handles the event at the head of its socket's queue
Handle(c, r) ==
    /\ Run(c, r, [inbox EXCEPT ![c] = Tail(@)])
    /\ lastEvent' = [client |-> c, ev |-> Head(inbox[c]).ev, arg |-> Head(inbox[c]).arg]
    /\ UNCHANGED offSocket

Arrived(c, ev) == inbox[c] # <<>> /\ Head(inbox[c]).ev = ev

ClientPosition ==
    \E c \in Clients :
        Arrived(c, "position") /\ Handle(c, onPosition(client[c], Head(inbox[c]).arg))

ClientRtcOffer ==
    \E c \in Clients :
        Arrived(c, "rtc-offer") /\ Handle(c, onRtcOffer(client[c], Head(inbox[c]).arg))

ClientRtcAnswer ==
    \E c \in Clients :
        Arrived(c, "rtc-answer") /\ Handle(c, onRtcAnswer(client[c], Head(inbox[c]).arg))

ClientIceCandidate ==
    \E c \in Clients :
        Arrived(c, "ice-candidate")
          /\ Handle(c, onIceCandidate(client[c], Head(inbox[c]).arg))

ClientDisconnectClient ==
    \E c \in Clients :
        Arrived(c, "disconnectClient")
          /\ Handle(c, onDisconnectClient(client[c], Head(inbox[c]).arg))

ClientCount ==
    \E c \in Clients :
        Arrived(c, "clientCount")
          /\ Handle(c, onClientCount(client[c], Head(inbox[c]).arg))

\* a step of the client that no socket event starts
Step(c, r) == Run(c, r, inbox) /\ lastEvent' = NoEvent /\ UNCHANGED offSocket

\* getUserMedia of client c is granted or denied
Settlement(c) ==
    \E outcome \in {"granted", "denied"} :
        /\ client[c].localStream = "pending"
        /\ Step(c, Done(settle(client[c], outcome)))

MediaSettles == \E c \in Clients : Settlement(c)

\* a suspended listener of client c runs on
Continuation(c) ==
    \E i \in DOMAIN client[c].tasks :
        LET t == client[c].tasks[i]
            rest == [client[c] EXCEPT !.tasks = SubSeq(@, 1, i - 1) \o SubSeq(@, i + 1, Len(@))]
        IN  /\ t.at # "media"
            /\ ~client[c].pcs[t.pc].closed
            /\ Step(c, resume(rest, t))

Resume == \E c \in Clients : Continuation(c)

\* an operation that a suspended listener of client c awaits on an open
\* connection is rejected by the browser
Rejection(c) ==
    \E i \in DOMAIN client[c].tasks :
        LET t == client[c].tasks[i]
            rest == [client[c] EXCEPT !.tasks = SubSeq(@, 1, i - 1) \o SubSeq(@, i + 1, Len(@))]
        IN  /\ t.at \in Rejectable
            /\ ~client[c].pcs[t.pc].closed
            /\ Run(c, reject(rest, t), inbox)
            /\ lastEvent' = [client |-> c, ev |-> "rejected", arg |-> t]
            /\ UNCHANGED offSocket

Rejects == \E c \in Clients : Rejection(c)

\* pc.onicecandidate: candidates are gathered for the media sections of the
\* local description and surfaced once setLocalDescription has completed,
\* that is after the handler awaiting it has run on
IceGather ==
    \E c \in Clients : \E h \in DOMAIN client[c].pcs :
        LET pc == client[c].pcs[h]
        IN  /\ ~pc.closed /\ pc.wired /\ pc.local # "none" /\ pc.media
            /\ \A i \in DOMAIN client[c].tasks :
                  ~(/\ client[c].tasks[i].pc = h
                    /\ client[c].tasks[i].at \in {"setLocal", "setLocalAnswer"})
            /\ pc.gathered < MaxCandidates
            /\ Step(c, Emit([client[c] EXCEPT !.pcs[h].gathered = @ + 1],
                            Msg("ice-candidate",
                                Obj([to |-> pc.peer,
                                     candidate |-> CandidateNames[pc.gathered + 1]]))))

\* src/public/js/movement.js: setInterval(() => socket.emit('position', ...), 100)
Transform(c) ==
    \E p \in TickPositions :
        Step(c, Emit(client[c], Msg("position", Obj([position |-> p]))))

Tick == \E c \in Clients : Transform(c)

\* a browser opens the page: its socket connects
MeshConnect ==
    /\ Cardinality(used) < MaxClients
    /\ \E id \in IdPool :
          /\ OnConnection(id, (id :> <<>>) @@ inbox)
          /\ client' = (id :> NewClient(id)) @@ client
          /\ lastEvent' = NoEvent
          /\ UNCHANGED offSocket

\* a browser closes the page: its socket disconnects
MeshDisconnect ==
    \E c \in Clients :
        /\ OnDisconnect(c, inbox)
        /\ client' = Without(client, c)
        /\ lastEvent' = NoEvent
        /\ UNCHANGED offSocket

MeshNext ==
    \/ MeshConnect
    \/ MeshDisconnect
    \/ Tick
    \/ ClientPosition
    \/ ClientRtcOffer
    \/ ClientRtcAnswer
    \/ ClientIceCandidate
    \/ ClientDisconnectClient
    \/ ClientCount
    \/ MediaSettles
    \/ Resume
    \/ Rejects
    \/ IceGather

MeshSpec == Init /\ [][MeshNext]_vars

(***************************************************************************)
(* One page among sessions that are not pages: whatever holds a socket can *)
(* send the client transforms and signalling, in any order.                *)
(***************************************************************************)
\* no queue holds more than LiveInbox messages after the step
Quiet == \A c \in DOMAIN inbox' : Len(inbox'[c]) <= LiveInbox

\* the id of the page, and the ids of the other sessions: one is lower than
\* the page's and one is higher
PageId == "AB"

PeerIds == {"AA", "BA"}

\* the sessions that do not run the client
Peers == sessions \ Clients

\* the browser opens the page; there is one page, the first session
PageOpens ==
    /\ used = {}
    /\ \E id \in {PageId} :
          /\ OnConnection(id, (id :> <<>>) @@ inbox)
          /\ client' = (id :> NewClient(id)) @@ client
          /\ lastEvent' = NoEvent
          /\ UNCHANGED offSocket

\* another session connects, once the page is there and its user has
\* answered the camera prompt
PeerJoins ==
    /\ \E c \in Clients : client[c].localStream # "pending"
    /\ \E id \in PeerIds : OnConnection(id, inbox)
    /\ lastEvent' = NoEvent
    /\ UNCHANGED <<client, offSocket>>

PeerTransform ==
    /\ \E s \in Peers, p \in TickPositions :
          OnPosition(s, Obj([position |-> p]), inbox)
    /\ lastEvent' = NoEvent
    /\ UNCHANGED <<client, offSocket>>

\* a peer with the lower id offers
PeerOffer ==
    /\ \E s \in Peers, c \in Clients :
          /\ IdLess(s, c)
          /\ OnRtcOffer(s, Obj([to |-> c, offer |-> Description("offer", TRUE)]), inbox)
    /\ lastEvent' = NoEvent
    /\ UNCHANGED <<client, offSocket>>

\* a peer with the higher id answers, asked or not
PeerAnswer ==
    /\ \E s \in Peers, c \in Clients :
          /\ IdLess(c, s)
          /\ OnRtcAnswer(s, Obj([to |-> c, answer |-> Description("answer", TRUE)]), inbox)
    /\ lastEvent' = NoEvent
    /\ UNCHANGED <<client, offSocket>>

\* a peer sends at most MaxCandidates candidates
PeerCandidate ==
    /\ \E s \in Peers, c \in Clients :
          /\ \A h \in DOMAIN client[c].pcs :
                client[c].pcs[h].peer = s =>
                    Len(client[c].pcs[h].candidates) < MaxCandidates
          /\ OnIceCandidate(s, Obj([to |-> c, candidate |-> CandidateNames[1]]), inbox)
    /\ lastEvent' = NoEvent
    /\ UNCHANGED <<client, offSocket>>

PeerNext ==
    \/ PageOpens /\ Quiet
    \/ PeerJoins /\ Quiet
    \/ PeerTransform /\ Quiet
    \/ PeerOffer /\ Quiet
    \/ PeerAnswer /\ Quiet
    \/ PeerCandidate /\ Quiet
    \/ ClientPosition /\ Quiet
    \/ ClientRtcOffer /\ Quiet
    \/ ClientRtcAnswer /\ Quiet
    \/ ClientIceCandidate /\ Quiet
    \/ ClientCount /\ Quiet
    \/ MediaSettles /\ Quiet
    \/ Resume /\ Quiet
    \/ Rejects /\ Quiet

PeerSpec == Init /\ [][PeerNext]_vars

(***************************************************************************)
(* Moving peers.  One session runs the client code; the others are         *)
(* sessions that report transforms, now one position, now another.         *)
(***************************************************************************)
\* the positions a peer reports
MovePositions == {1, 2}

\* another session connects, whether or not the user of the page has answered
\* the camera prompt
MoverJoins ==
    /\ used # {}
    /\ \E id \in PeerIds : OnConnection(id, inbox)
    /\ lastEvent' = NoEvent
    /\ UNCHANGED <<client, offSocket>>

MoverTransform ==
    /\ \E s \in Peers, p \in MovePositions :
          OnPosition(s, Obj([position |-> p]), inbox)
    /\ lastEvent' = NoEvent
    /\ UNCHANGED <<client, offSocket>>

MoverLeaves ==
    /\ \E s \in Peers : OnDisconnect(s, inbox)
    /\ lastEvent' = NoEvent
    /\ UNCHANGED <<client, offSocket>>

MoveNext ==
    \/ PageOpens
    \/ MoverJoins
    \/ MoverTransform
    \/ MoverLeaves
    \/ ClientPosition
    \/ ClientCount
    \/ ClientDisconnectClient
    \/ MediaSettles
    \/ Resume
    \/ Rejects

MoveSpec == Init /\ [][MoveNext]_vars

(***************************************************************************)
(* Two relays.  The same browsers are served once by                       *)
(* src/src/mingle_server.ts (inbox, client) and once by                    *)
(* src/mingle_server.js (inboxJs, clientJs).  They connect, report their   *)
(* transforms, get their camera and leave at the same moments under both;  *)
(* what each relay delivers is handled under each on its own, one message  *)
(* in flight to a client at a time (two after a departure, which           *)
(* mingle_server.ts announces with two).                                   *)
(***************************************************************************)
\* mingle_server.js: the queues once a listener has emitted em
JsTransmit(box, em) ==
    [c \in (DOMAIN box) \cap (DOMAIN em) |-> box[c] \o em[c]]

JsRoom(box, em) ==
    \A c \in (DOMAIN box) \cap (DOMAIN em) : Len(box[c]) + Len(em[c]) <= MaxInbox

\* mingle_server.js socket.on('position'):
\* socket.broadcast.emit('position', { id: socket.id, ...data })
JsOnPosition(s, data, box) ==
    LET em == socketBroadcastEmit(sessions, s,
                 Msg("position", Spread([id |-> s], data.fields)))
    IN  JsRoom(box, em) /\ inboxJs' = JsTransmit(box, em)

\* mingle_server.js socket.on('disconnect'):
\* socket.broadcast.emit('disconnectClient', socket.id)
JsOnDisconnect(s, box) ==
    LET em == socketBroadcastEmit(sessions \ {s}, s,
                 Msg("disconnectClient", [id |-> s]))
    IN  JsRoom(box, em) /\ inboxJs' = JsTransmit(box, em)

\* socket.emit(ev, arg) of a client served by mingle_server.js, which
\* listens for position and for nothing else
JsSend(c, m, box) ==
    IF m.ev = "position" THEN JsOnPosition(c, m.arg, box) ELSE inboxJs' = box

\* a step of client c under mingle_server.js with result r
JsRun(c, r, box) ==
    /\ clientJs' = [clientJs EXCEPT ![c] = r.st]
    /\ IF r.out = <<>> THEN inboxJs' = box ELSE JsSend(c, r.out[1], box)

\* a browser opens the page; io.on('connection') of mingle_server.js emits
\* nothing
TwinConnect ==
    /\ Cardinality(used) < MaxClients
    /\ \E id \in IdPool :
          /\ OnConnection(id, (id :> <<>>) @@ inbox)
          /\ client' = (id :> NewClient(id)) @@ client
          /\ inboxJs' = (id :> <<>>) @@ inboxJs
          /\ clientJs' = (id :> NewClient(id)) @@ clientJs
    /\ lastEvent' = NoEvent
    /\ UNCHANGED pageVars

\* the setInterval callback of a browser emits its transform
TwinTransform ==
    /\ \E c \in Clients, p \in TickPositions :
          LET m == Msg("position", Obj([position |-> p]))
          IN  /\ Run(c, Emit(client[c], m), inbox)
              /\ JsRun(c, Emit(clientJs[c], m), inboxJs)
    /\ lastEvent' = NoEvent
    /\ UNCHANGED pageVars

\* getUserMedia of a browser is granted or denied
TwinSettles ==
    /\ \E c \in Clients, outcome \in {"granted", "denied"} :
          /\ client[c].localStream = "pending"
          /\ client' = [client EXCEPT ![c] = settle(@, outcome)]
          /\ clientJs' = [clientJs EXCEPT ![c] = settle(@, outcome)]
    /\ lastEvent' = NoEvent
    /\ UNCHANGED <<relayVars, inbox, inboxJs, pageVars>>

\* a browser closes the page
TwinDisconnect ==
    /\ \E c \in Clients :
          /\ OnDisconnect(c, inbox)
          /\ client' = Without(client, c)
          /\ JsOnDisconnect(c, inboxJs)
          /\ clientJs' = Without(clientJs, c)
    /\ lastEvent' = NoEvent
    /\ UNCHANGED pageVars

\* under mingle_server.js a client handles the event at the head of its queue
JsHandle(c, r) ==
    /\ JsRun(c, r, [inboxJs EXCEPT ![c] = Tail(@)])
    /\ lastEvent' = NoEvent
    /\ UNCHANGED <<relayVars, inbox, client, pageVars>>

JsArrived(c, ev) == inboxJs[c] # <<>> /\ Head(inboxJs[c]).ev = ev

JsClientPosition ==
    \E c \in DOMAIN clientJs :
        /\ JsArrived(c, "position")
        /\ JsHandle(c, onPosition(clientJs[c], Head(inboxJs[c]).arg))

JsClientDisconnectClient ==
    \E c \in DOMAIN clientJs :
        /\ JsArrived(c, "disconnectClient")
        /\ JsHandle(c, onDisconnectClient(clientJs[c], Head(inboxJs[c]).arg))

\* under mingle_server.js a suspended listener runs on
JsResume ==
    \E c \in DOMAIN clientJs :
        \E i \in DOMAIN clientJs[c].tasks :
            LET t == clientJs[c].tasks[i]
                rest == [clientJs[c] EXCEPT
                           !.tasks = SubSeq(@, 1, i - 1) \o SubSeq(@, i + 1, Len(@))]
            IN  /\ t.at # "media"
                /\ ~clientJs[c].pcs[t.pc].closed
                /\ JsRun(c, resume(rest, t), inboxJs)
                /\ lastEvent' = NoEvent
                /\ UNCHANGED <<relayVars, inbox, client, pageVars>>

\* no queue of mingle_server.js holds more than LiveInbox messages after the
\* step
JsQuiet == \A c \in DOMAIN inboxJs' : Len(inboxJs'[c]) <= LiveInbox

TwinNext ==
    \/ TwinConnect /\ Quiet /\ JsQuiet
    \/ TwinTransform /\ Quiet /\ JsQuiet
    \/ TwinSettles /\ Quiet /\ JsQuiet
    \/ TwinDisconnect /\ JsQuiet
    \/ ClientPosition /\ Quiet /\ JsQuiet
    \/ ClientRtcOffer /\ Quiet /\ JsQuiet
    \/ ClientRtcAnswer /\ Quiet /\ JsQuiet
    \/ ClientCount /\ Quiet /\ JsQuiet
    \/ ClientDisconnectClient /\ Quiet /\ JsQuiet
    \/ Resume /\ Quiet /\ JsQuiet
    \/ JsClientPosition /\ Quiet /\ JsQuiet
    \/ JsClientDisconnectClient /\ Quiet /\ JsQuiet
    \/ JsResume /\ Quiet /\ JsQuiet

TwinSpec == Init /\ [][TwinNext]_vars

(***************************************************************************)
(* Start-up of a page: the module body of mingle_client.js                 *)
(* (src/unnamed/part_014), then its socket connects and the interval that  *)
(* initMovement set reports the transform.  A page whose initWebRTC threw  *)
(* has none of the listeners of webrtc.js.                                 *)
(***************************************************************************)
\* a module body without the try around initWebRTC: the exception ends it
moduleInit_NoCatch(io, throws) ==
    [loaded |-> TRUE, socket |-> io,
     webrtc |-> IF ~io THEN "off" ELSE IF throws THEN "failed" ELSE "on",
     movement |-> io /\ ~throws, notice |-> FALSE, id |-> ""]

\* if (socket) { try { initWebRTC(...) } catch (err) { ... } initMovement(...) }
\* io: window.io is there; throws: initWebRTC throws.  notice: the line
\* 'Webcam unavailable; running without video.' is on the page
moduleInit(io, throws) ==
    [loaded |-> TRUE, socket |-> io,
     webrtc |-> IF ~io THEN "off" ELSE IF throws THEN "failed" ELSE "on",
     movement |-> io, notice |-> io /\ throws, id |-> ""]

\* the browser runs the module script
PageLoads ==
    /\ ~boot.loaded
    /\ \E io \in BOOLEAN, throws \in BOOLEAN : boot' = moduleInit(io, throws)
    /\ lastEvent' = NoEvent
    /\ UNCHANGED <<relayVars, inbox, client, ADMIN_TOKEN, worldConfig, response, ui,
                   inboxJs, clientJs>>

\* the socket of the page connects; the listeners of webrtc.js are there if
\* initWebRTC returned
PageConnects ==
    /\ boot.socket
    /\ boot.id = ""
    /\ \E id \in {PageId} :
          /\ boot' = [boot EXCEPT !.id = id]
          /\ IF boot.webrtc = "on"
             THEN /\ OnConnection(id, (id :> <<>>) @@ inbox)
                  /\ client' = (id :> NewClient(id)) @@ client
             ELSE /\ OnConnection(id, inbox)
                  /\ UNCHANGED client
    /\ lastEvent' = NoEvent
    /\ UNCHANGED <<ADMIN_TOKEN, worldConfig, response, ui, inboxJs, clientJs>>

\* the callback of setInterval(..., 100) of initMovement
PageTick ==
    /\ boot.movement
    /\ boot.id \in sessions
    /\ \E p \in TickPositions :
          LET m == Msg("position", Obj([position |-> p]))
          IN  IF boot.id \in Clients
              THEN Run(boot.id, Emit(client[boot.id], m), inbox)
              ELSE OnPosition(boot.id, m.arg, inbox) /\ UNCHANGED client
    /\ lastEvent' = NoEvent
    /\ UNCHANGED offSocket

\* the sessions of other programs
Others == sessions \ {boot.id}

\* another session connects, once the script of the page has run
OtherJoins ==
    /\ boot.loaded
    /\ \E id \in PeerIds : OnConnection(id, inbox)
    /\ lastEvent' = NoEvent
    /\ UNCHANGED <<client, offSocket>>

OtherTransform ==
    /\ \E s \in Others, p \in TickPositions :
          OnPosition(s, Obj([position |-> p]), inbox)
    /\ lastEvent' = NoEvent
    /\ UNCHANGED <<client, offSocket>>

OtherLeaves ==
    /\ \E s \in Others : OnDisconnect(s, inbox)
    /\ lastEvent' = NoEvent
    /\ UNCHANGED <<client, offSocket>>

BootNext ==
    \/ PageLoads /\ Quiet
    \/ PageConnects /\ Quiet
    \/ PageTick /\ Quiet
    \/ OtherJoins /\ Quiet
    \/ OtherTransform /\ Quiet
    \/ OtherLeaves
    \/ ClientPosition /\ Quiet
    \/ ClientCount /\ Quiet
    \/ ClientDisconnectClient /\ Quiet
    \/ MediaSettles /\ Quiet
    \/ Resume /\ Quiet

BootSpec == Init /\ [][BootNext]_vars

(***************************************************************************)
(* Scheduling.  The browser's event loop runs every listener whose event   *)
(* has arrived, every continuation whose awaited operation has completed   *)
(* and every timer callback that is due.  A step that emits is strongly    *)
(* fair: the guard that bounds the queues is of the model, the socket      *)
(* itself never refuses a message.                                         *)
(***************************************************************************)
\* the listener client st registered for the event of message m
listener(st, m) ==
    CASE m.ev = "position" -> onPosition(st, m.arg)
      [] m.ev = "rtc-offer" -> onRtcOffer(st, m.arg)
      [] m.ev = "rtc-answer" -> onRtcAnswer(st, m.arg)
      [] m.ev = "ice-candidate" -> onIceCandidate(st, m.arg)
      [] m.ev = "disconnectClient" -> onDisconnectClient(st, m.arg)
      [] m.ev = "clientCount" -> onClientCount(st, m.arg)

\* client c handles the socket event at the head of its queue
Delivery(c) ==
    /\ inbox[c] # <<>>
    /\ Handle(c, listener(client[c], Head(inbox[c])))

\* the sessions negotiate: they join, report their transforms, and exchange
\* offer and answer; none leaves
NegotiationNext ==
    \/ MeshConnect /\ Quiet
    \/ Tick /\ Quiet
    \/ ClientPosition /\ Quiet
    \/ ClientRtcOffer /\ Quiet
    \/ ClientRtcAnswer /\ Quiet
    \/ ClientCount /\ Quiet
    \/ MediaSettles /\ Quiet
    \/ Resume /\ Quiet

Fairness ==
    \A c \in IdPool :
        /\ WF_vars(c \in Clients /\ Delivery(c) /\ Quiet)
        /\ SF_vars(c \in Clients /\ Continuation(c) /\ Quiet)
        /\ SF_vars(c \in Clients /\ Transform(c) /\ Quiet)

\* the clients under fair scheduling; a user may leave the permission
\* prompt of getUserMedia unanswered for ever
FairSpec == Init /\ [][NegotiationNext]_vars /\ Fairness

\* the same, every permission prompt being answered in the end
LiveSpec ==
    FairSpec /\ \A c \in IdPool : WF_vars(c \in Clients /\ Settlement(c) /\ Quiet)

(***************************************************************************)
(* Properties of the relay, checked under Spec.                            *)
(***************************************************************************)
SignalEvents == {"rtc-offer", "rtc-answer", "ice-candidate"}

PayloadName == [x \in SignalEvents |->
    CASE x = "rtc-offer" -> "offer"
      [] x = "rtc-answer" -> "answer"
      [] x = "ice-candidate" -> "candidate"]

\* the messages of event ev in a sequence of messages
Of(q, ev) == SelectSeq(q, LAMBDA m : m.ev = ev)

\* the sessions the last handler emitted something to
Reached == {r \in DOMAIN emitted : emitted[r] # <<>>}

\* C1: a relayed rtc-offer, rtc-answer or ice-candidate reaches no session
\* other than the one named by the sender's routing key `to`; it is never
\* echoed to the sender and appears only as the output of that handler.
C1_SignalDirected ==
    /\ lastOp.op \in SignalEvents =>
          \A r \in Reached : r = Prop(lastOp.arg, "to") /\ r # lastOp.from
    /\ \A r \in DOMAIN emitted : \A i \in 1..Len(emitted[r]) :
          emitted[r][i].ev \in SignalEvents => emitted[r][i].ev = lastOp.op

\* a signalling message was relayed to its recipient while a third session
\* was connected
C1_Witness ==
    /\ lastOp.op \in SignalEvents
    /\ Reached # {}
    /\ Cardinality(sessions) >= 3

\* C2 (as claimed): every relayed transform carries the id of the session
\* that sent it, whatever the payload.
C2_TransformIdIsSender ==
    \A r \in DOMAIN emitted : \A i \in 1..Len(emitted[r]) :
        emitted[r][i].ev = "position" => emitted[r][i].arg.id = lastOp.from

\* C3: the `from` of every relayed offer, answer or candidate is the id of
\* the session whose socket the message arrived on, also when the payload
\* carries a `from` of its own.
C3_FromIsSender ==
    \A r \in DOMAIN emitted : \A i \in 1..Len(emitted[r]) :
        emitted[r][i].ev \in SignalEvents =>
            /\ emitted[r][i].arg.from = lastOp.from
            /\ lastOp.from \in used

\* a payload naming another session as `from` was relayed
C3_Witness ==
    /\ lastOp.op \in SignalEvents
    /\ Reached # {}
    /\ "from" \in DOMAIN lastOp.arg.fields
    /\ lastOp.arg.fields.from # lastOp.from

\* C6: a disconnect of S sends exactly one departure event carrying S's id
\* to every session connected at that moment; no session is ever sent two
\* departure events for one id; no departure event names a connected id.
C6_DepartureOnce ==
    /\ lastOp.op = "disconnect" =>
          /\ DOMAIN emitted = sessions
          /\ \A r \in sessions : DepartureCount(emitted[r], lastOp.from) = 1
    /\ \A r \in IdPool : \A s \in IdPool : departures[r][s] <= 1
    /\ \A r \in DOMAIN emitted : \A i \in 1..Len(emitted[r]) :
          emitted[r][i].ev = "disconnectClient" =>
              /\ lastOp.op = "disconnect"
              /\ emitted[r][i].arg.id = lastOp.from
              /\ emitted[r][i].arg.id \notin sessions

\* a session left while two others were connected
C6_Witness ==
    /\ lastOp.op = "disconnect"
    /\ Cardinality(sessions) >= 2
    /\ \A r \in sessions : departures[r][lastOp.from] = 1

\* C7 (as claimed): a session that was sent the departure event for an id
\* is sent no transform bearing that id afterwards.
C7_NoTransformAfterDeparture ==
    \A r \in DOMAIN emitted : \A i \in 1..Len(emitted[r]) :
        emitted[r][i].ev = "position" =>
            departures[r][emitted[r][i].arg.id] = 0

\* C9: a transform received from S is delivered exactly once to every
\* connected session, S included, with the properties of the payload.
C9_TransformToAll ==
    lastOp.op = "position" =>
        /\ DOMAIN emitted = sessions
        /\ lastOp.from \in sessions
        /\ \A r \in sessions :
              /\ Len(Of(emitted[r], "position")) = 1
              /\ \A f \in DOMAIN lastOp.arg.fields :
                    Of(emitted[r], "position")[1].arg[f] = lastOp.arg.fields[f]

\* a transform was relayed while three sessions were connected
C9_Witness ==
    /\ lastOp.op = "position"
    /\ Cardinality(sessions) >= 3
    /\ Len(Of(emitted[lastOp.from], "position")) = 1

\* C10: an offer, answer or candidate sent by S with `to` = R, R connected
\* and different from S, reaches R exactly once, as the same event and with
\* the payload S sent.
C10_SignalDelivered ==
    (/\ lastOp.op \in SignalEvents
     /\ relayUp
     /\ Prop(lastOp.arg, "to") \in sessions \ {lastOp.from}) =>
        LET r == Prop(lastOp.arg, "to")
            n == PayloadName[lastOp.op]
        IN  /\ Len(emitted[r]) = 1
            /\ emitted[r][1].ev = lastOp.op
            /\ n \in DOMAIN lastOp.arg.fields =>
                  /\ n \in DOMAIN emitted[r][1].arg
                  /\ emitted[r][1].arg[n] = lastOp.arg.fields[n]

\* an ICE candidate was relayed to its recipient
C10_Witness ==
    /\ lastOp.op = "ice-candidate"
    /\ Prop(lastOp.arg, "to") \in sessions \ {lastOp.from}
    /\ "candidate" \in DOMAIN lastOp.arg.fields
    /\ Len(emitted[Prop(lastOp.arg, "to")]) = 1

\* C11: an offer, answer or candidate whose `to` names no connected session
\* (an unknown id, a departed one, or none at all) is sent to nobody, the
\* sender included; the relay keeps running and its sessions are unchanged.
C11_UnroutableDropped ==
    [][(/\ lastOp'.op \in SignalEvents
        /\ ~DestructureThrows(lastOp'.arg)
        /\ Prop(lastOp'.arg, "to") \notin sessions)
       => /\ sessions' = sessions
          /\ relayUp'
          /\ \A r \in DOMAIN emitted' : emitted'[r] = <<>>]_vars

\* a message addressed to a departed session was handled while two sessions
\* were connected
C11_Witness ==
    /\ lastOp.op \in SignalEvents
    /\ relayUp
    /\ Prop(lastOp.arg, "to") \in used \ sessions
    /\ Cardinality(sessions) >= 2
    /\ DOMAIN emitted = sessions
    /\ \A r \in sessions : emitted[r] = <<>>

\* C19 (as claimed): no message of a client ends the relay process; after an
\* rtc-offer, rtc-answer or ice-candidate with whatever argument the relay
\* runs and has the sessions it had.
C19_SignalNeverFatal ==
    [][lastOp'.op \in SignalEvents => relayUp' /\ sessions' = sessions]_vars

\* C20: after a position event with whatever argument (an object with or
\* without fields, null, undefined, a primitive) the relay runs, the sender
\* and every other session are still connected, and the event was relayed.
C20_TransformNeverFatal ==
    [][lastOp'.op = "position" =>
          /\ relayUp'
          /\ sessions' = sessions
          /\ lastOp'.from \in sessions'
          /\ DOMAIN emitted' = sessions'
          /\ \A r \in sessions' : Len(Of(emitted'[r], "position")) = 1]_vars

\* a position event whose argument is no object was relayed to two sessions
C20_Witness ==
    /\ lastOp.op = "position"
    /\ lastOp.arg.js # "object"
    /\ relayUp
    /\ Cardinality(sessions) >= 2
    /\ \A r \in sessions : Len(Of(emitted[r], "position")) = 1

(***************************************************************************)
(* Properties of the client, checked under MeshSpec.                       *)
(***************************************************************************)
\* id a sorts lexicographically lower than id b
Lower(a, b) == LexLess(IdChars[a], IdChars[b])

\* the peer connection client c holds for remote id r
PcOf(c, r) == client[c].pcs[client[c].peerConnections[r]]

HasPc(c, r) == r \in DOMAIN client[c].peerConnections

\* C4: of two sessions exactly one sorts lower; only that one's client
\* creates and emits an offer for the pair, only the other one answers, and
\* the two are never both offering to each other.
C4_TieBreak ==
    /\ \A a \in IdPool : \A b \in IdPool \ {a} : Lower(a, b) # Lower(b, a)
    /\ lastOp.op = "rtc-offer" => Lower(lastOp.from, lastOp.arg.fields.to)
    /\ lastOp.op = "rtc-answer" => Lower(lastOp.arg.fields.to, lastOp.from)
    /\ \A c \in Clients :
          /\ \A h \in DOMAIN client[c].pcs :
                LET pc == client[c].pcs[h]
                IN  /\ pc.local = "offer" => Lower(c, pc.peer)
                    /\ pc.local = "answer" => Lower(pc.peer, c)
          /\ \A i \in DOMAIN client[c].tasks :
                LET t == client[c].tasks[i]
                IN  /\ (t.kind = "position" /\ t.at # "media") => Lower(c, t.id)
                    /\ (t.kind = "offer" /\ t.at # "media") => Lower(t.id, c)
    /\ \A a \in Clients : \A b \in Clients :
          ~(/\ HasPc(a, b) /\ PcOf(a, b).local = "offer"
            /\ HasPc(b, a) /\ PcOf(b, a).local = "offer")

\* the lower id has offered and holds the answer; the higher id has answered
C4_Witness ==
    \E a \in Clients : \E b \in Clients :
        /\ Lower(a, b)
        /\ HasPc(a, b) /\ PcOf(a, b).local = "offer" /\ PcOf(a, b).remote = "answer"
        /\ HasPc(b, a) /\ PcOf(b, a).local = "answer" /\ PcOf(b, a).remote = "offer"

\* C5 (as claimed): a candidate that was not applied when it was received
\* (no remote description yet) is applied once the remote description is set.
C5_CandidatesApplied ==
    \A c \in Clients : \A e \in client[c].unapplied :
        (HasPc(c, e[1]) /\ PcOf(c, e[1]).remote # "none") =>
            \E i \in DOMAIN PcOf(c, e[1]).candidates :
                PcOf(c, e[1]).candidates[i] = e[2]

\* C8: a client never holds an avatar, a video element or a peer connection
\* for its own id, and handling a transform that bears its own id changes
\* nothing of its state and emits nothing.
C8_SelfFilter ==
    /\ [](\A c \in Clients :
            /\ c \notin DOMAIN client[c].remotes
            /\ c \notin DOMAIN client[c].videoEls
            /\ c \notin DOMAIN client[c].peerConnections
            /\ \A h \in DOMAIN client[c].pcs : client[c].pcs[h].peer # c)
    /\ [][\A c \in Clients :
            (/\ Arrived(c, "position")
             /\ Head(inbox[c]).arg.id = c
             /\ lastEvent' = [client |-> c, ev |-> "position",
                              arg |-> Head(inbox[c]).arg])
            => /\ client'[c] = client[c]
               /\ lastOp' = lastOp
               /\ emitted' = emitted]_vars

\* a client that shows a remote avatar has just handled its own transform
\* and the next event it will handle is its own transform again
C8_Witness ==
    \E c \in Clients :
        /\ lastEvent.client = c
        /\ lastEvent.ev = "position"
        /\ lastEvent.arg.id = c
        /\ DOMAIN client[c].remotes # {}
        /\ Arrived(c, "position")
        /\ Head(inbox[c]).arg.id = c

\* the live count client c was sent last: the last clientCount in flight to
\* it or, when none is, the one its listener stored
LastCount(c) ==
    LET at == {i \in DOMAIN inbox[c] : inbox[c][i].ev = "clientCount"}
    IN  IF at = {} THEN client[c].connectedClients
        ELSE inbox[c][CHOOSE i \in at : \A j \in at : j <= i].arg.count

LivePcs(c, r) ==
    {h \in DOMAIN client[c].pcs :
        client[c].pcs[h].peer = r /\ ~client[c].pcs[h].closed}

\* C14: a client has at most one peer connection that is not closed per
\* remote id, and it is the one peerConnections holds for that id: none was
\* created over an existing entry and none was dropped without being closed.
C14_OnePeerLink ==
    \A c \in Clients :
        /\ \A r \in IdPool : Cardinality(LivePcs(c, r)) <= 1
        /\ \A r \in DOMAIN client[c].peerConnections :
              LivePcs(c, r) = {client[c].peerConnections[r]}
        /\ \A r \in IdPool \ DOMAIN client[c].peerConnections :
              LivePcs(c, r) = {}

\* the position listener for r is suspended inside createPeerConnection and
\* the rtc-offer listener for r has meanwhile set the remote description of
\* the one connection there is
C14_Witness ==
    \E c \in Clients : \E i \in DOMAIN client[c].tasks :
        LET t == client[c].tasks[i]
        IN  /\ t.kind = "position" /\ t.at = "media"
            /\ client[c].pcs[t.pc].remote = "offer"
            /\ LivePcs(c, t.id) = {t.pc}

\* C12 (as claimed): when the disconnectClient listener of a client has run
\* for an id, the client has no peerConnections entry, no avatar and no video
\* element for that id, and no connection to it that is not closed.
C12_DepartureReleasesAll ==
    \A c \in Clients :
        (lastEvent.client = c /\ lastEvent.ev = "disconnectClient") =>
            LET id == lastEvent.arg.id
            IN  /\ id \notin DOMAIN client[c].peerConnections
                /\ id \notin DOMAIN client[c].remotes
                /\ id \notin DOMAIN client[c].videoEls
                /\ LivePcs(c, id) = {}

\* C13 (as claimed): the disconnectClient listener changes nothing when the
\* client has neither a peerConnections entry nor an avatar for the id, and
\* running it twice for one id gives the state that running it once gives.
C13_DepartureIdempotent ==
    \A c \in Clients : \A id \in IdPool :
        LET once == onDisconnectClient(client[c], [id |-> id]).st
            twice == onDisconnectClient(once, [id |-> id]).st
        IN  /\ twice = once
            /\ (/\ id \notin DOMAIN client[c].peerConnections
                 /\ id \notin DOMAIN client[c].remotes) => once = client[c]

(***************************************************************************)
(* Properties of the negotiation, checked under LiveSpec and FairSpec.     *)
(***************************************************************************)
\* offer and answer have been exchanged between a (offerer) and b: both
\* connections have their local and their remote description
Linked(a, b) ==
    /\ a \in Clients /\ b \in Clients
    /\ HasPc(a, b) /\ PcOf(a, b).local = "offer" /\ PcOf(a, b).remote = "answer"
    /\ HasPc(b, a) /\ PcOf(b, a).local = "answer" /\ PcOf(b, a).remote = "offer"

\* every two connected sessions are linked
AllLinked ==
    \A a \in sessions : \A b \in sessions : Lower(a, b) => Linked(a, b)

\* C17: from some moment on every two connected sessions are linked: the
\* lower id has sent its offer, the higher id has answered it, and both
\* connections have their local and their remote description.
C17_MeshForms == <>[]AllLinked

\* two sessions are linked, one with its media granted, one denied
C17_Witness ==
    \E a \in Clients : \E b \in Clients :
        /\ Linked(a, b)
        /\ client[a].localStream = "granted"
        /\ client[b].localStream = "denied"

Denied(c) == client[c].localStream = "denied"

Offered(c, r) ==
    \/ HasPc(c, r) /\ PcOf(c, r).remote = "offer"
    \/ \E i \in DOMAIN client[c].tasks :
          client[c].tasks[i].kind = "offer" /\ client[c].tasks[i].id = r

\* C16 (as claimed): negotiation does not wait for getUserMedia: from some
\* moment on a client whose media is still pending has set its offer on the
\* connection to every higher id it has seen and its answer on the
\* connection to every peer that sent it an offer.
C16_ProgressWhilePending ==
    <>[](\A c \in Clients : client[c].localStream = "pending" =>
            \A r \in IdPool :
                /\ (HasPc(c, r) /\ Lower(c, r)) => PcOf(c, r).local = "offer"
                /\ Offered(c, r) => (HasPc(c, r) /\ PcOf(c, r).local = "answer"))

(***************************************************************************)
(* Further properties of the relay.                                        *)
(***************************************************************************)
\* the messages of q from its n-th on
From(q, n) == SubSeq(q, n, Len(q))

C26_NoSnapshot ==
    \A r \in DOMAIN emitted : \A i \in 1..Len(emitted[r]) :
        emitted[r][i].ev = "position" =>
            /\ lastOp.op = "position"
            /\ lastOp.from = emitted[r][i].arg.id

\* C27 (as claimed): the rotation of a relayed transform, when it has one,
\* has numeric components only.
C27_RelayedFieldsNumeric ==
    \A r \in DOMAIN emitted : \A i \in 1..Len(emitted[r]) :
        (emitted[r][i].ev = "position" /\ "rotation" \in DOMAIN emitted[r][i].arg)
            => emitted[r][i].arg.rotation = Numeric

(***************************************************************************)
(* Properties of the admin API.                                            *)
(***************************************************************************)
\* the handler that ran last broadcast updateAvatars
Refreshed == \E r \in DOMAIN emitted : Of(emitted[r], "updateAvatars") # <<>>

\* the handler that ran last was a POST /world-config with the right token
Authorized ==
    /\ lastOp.op = "POST /world-config"
    /\ ADMIN_TOKEN # ""
    /\ lastOp.from = ADMIN_TOKEN

\* C24: the world configuration changes, and updateAvatars is broadcast,
\* only by a POST /world-config whose x-admin-token equals ADMIN_TOKEN; a
\* POST with no or another token is answered 401 and changes and broadcasts
\* nothing; with no ADMIN_TOKEN set no request changes the configuration.
C24_AdminOnly ==
    [][/\ (worldConfig' # worldConfig \/ Refreshed') => (Authorized' /\ response' = 200)
       /\ (/\ lastOp'.op = "POST /world-config"
           /\ ADMIN_TOKEN # ""
           /\ lastOp'.from # ADMIN_TOKEN)
             => (response' = 401 /\ worldConfig' = worldConfig /\ ~Refreshed')
       /\ ADMIN_TOKEN = "" => (worldConfig' = worldConfig /\ ~Refreshed')
       /\ ADMIN_TOKEN' = ADMIN_TOKEN]_vars

\* a configuration changed by an authorised request has just been refused to
\* a request with another token, with sessions connected
C24_Witness ==
    /\ lastOp.op = "POST /world-config"
    /\ lastOp.from = "guess"
    /\ lastOp.arg = Obj([worldGeometry |-> Str("cube")])
    /\ response = 401
    /\ worldConfig # DefaultWorldConfig
    /\ worldConfig.worldGeometry = "plane"
    /\ sessions # {}

\* s is '#' and six hexadecimal digits
HexColor(s) ==
    LET cs == ColorChars[s]
    IN  /\ Len(cs) = 7
        /\ Head(cs) = "#"
        /\ \A k \in 2..7 : cs[k] \in HexDigits

\* the value x given for the geometry, or for the colour, fails its check
BadGeometry(x) == x.t # "string" \/ x.v \notin {"plane", "cube", "sphere"}

BadColor(x) == x.t # "string" \/ ~HexColor(x.v)

\* C37: worldGeometry is always plane, cube or sphere and worldColor always
\* '#' and six hexadecimal digits; a POST /world-config leaves the geometry
\* as it was when the body's geometry fails its check, and the colour as it
\* was when the body's colour fails its check, whatever else it changes.
C37_ConfigWellFormed ==
    /\ [](/\ worldConfig.worldGeometry \in {"plane", "cube", "sphere"}
          /\ HexColor(worldConfig.worldColor))
    /\ [][lastOp'.op = "POST /world-config" =>
            LET given == lastOp'.arg.fields
            IN  /\ ("worldGeometry" \in DOMAIN given /\ BadGeometry(given.worldGeometry))
                      => worldConfig'.worldGeometry = worldConfig.worldGeometry
                /\ ("worldColor" \in DOMAIN given /\ BadColor(given.worldColor))
                      => worldConfig'.worldColor = worldConfig.worldColor]_vars

\* an accepted request whose colour is one character too long has left the
\* colour an earlier request had set
C37_Witness ==
    /\ lastOp.op = "POST /world-config"
    /\ lastOp.arg = Obj([worldColor |-> Str("#1A2b3C0")])
    /\ response = 200
    /\ worldConfig.worldColor = "#1A2b3C"

(***************************************************************************)
(* Properties of the view controls.                                        *)
(***************************************************************************)
\* the event handled last was a press of P or a change of the spectate box
SpectateRequested ==
    \/ lastEvent.ev = "keydown" /\ toLowerCase(lastEvent.arg) = "p"
    \/ lastEvent.ev = "change" /\ lastEvent.arg = "spectateToggle"

\* C25: a press of P or a change of the spectate checkbox takes FPV to
\* Spectator (spectating, spectator camera active) and Spectator to FPV
\* (not spectating, player camera active); in Lakitu mode it changes
\* nothing, and in Lakitu mode the page is never spectating and its active
\* camera is the player camera.
C25_SpectateToggle ==
    [][/\ ui.currentMode = MODE_LAKITU =>
              (~ui.spectating /\ ui.activeCamera = "playerCamera")
       /\ SpectateRequested' =>
              CASE ui.currentMode = MODE_LAKITU -> ui' = ui
                [] ui.currentMode = MODE_FPV ->
                      /\ ui'.currentMode = MODE_SPECTATOR
                      /\ ui'.spectating
                      /\ ui'.activeCamera = "spectateCam"
                [] ui.currentMode = MODE_SPECTATOR ->
                      /\ ui'.currentMode = MODE_FPV
                      /\ ~ui'.spectating
                      /\ ui'.activeCamera = "playerCamera"
                [] OTHER -> TRUE]_vars

\* P was pressed in Lakitu mode
C25_Witness ==
    /\ lastEvent.ev = "keydown"
    /\ lastEvent.arg = "P"
    /\ ui.currentMode = MODE_LAKITU
    /\ ui.currentView = "top"

\* C36: the page is spectating exactly when its mode is Spectator, its active
\* camera is the spectator camera exactly when it is spectating, and the
\* spectate checkbox shows it, after any clicks in the start menu, presses
\* of P and changes of the checkbox.
C36_ModeMatchesSpectate ==
    /\ ui.spectating <=> ui.currentMode = MODE_SPECTATOR
    /\ ui.spectating <=> ui.activeCamera = "spectateCam"
    /\ ~ui.spectating <=> ui.activeCamera = "playerCamera"

\* P was pressed before a mode was chosen in the start menu: the page
\* spectates, in Spectator mode, through the spectator camera
C36_Witness ==
    /\ lastEvent.ev = "keydown"
    /\ toLowerCase(lastEvent.arg) = "p"
    /\ ~ui.menuHidden
    /\ ui.spectating
    /\ ui.currentMode = MODE_SPECTATOR
    /\ ui.activeCamera = "spectateCam"

(***************************************************************************)
(* Failures of the negotiation.                                            *)
(***************************************************************************)
\* the step just taken was the rejection of an operation a listener awaited
Failed == lastEvent.ev = "rejected"

\* C21 (as claimed): once an operation of the negotiation of a peer
\* connection has been rejected, that connection is closed and is no longer
\* in the client's table.
C21_FailureCloses ==
    Failed =>
        LET st == client[lastEvent.client]
            t == lastEvent.arg
        IN  /\ st.pcs[t.pc].closed
            /\ t.id \notin DOMAIN st.peerConnections

\* C22 (as claimed): once a client has handled an offer, an answer or a
\* candidate from a session, it has a peer connection for that session, and
\* a candidate it could not apply is kept, not dropped.
C22_SignalCreatesLink ==
    lastEvent.ev \in SignalEvents =>
        LET st == client[lastEvent.client]
            from == lastEvent.arg.from
        IN  /\ from \in DOMAIN st.peerConnections
            /\ lastEvent.ev = "ice-candidate" =>
                  <<from, lastEvent.arg.candidate>> \notin st.unapplied

\* the timer of client c can emit its transform
Emitting(c) == ENABLED Transform(c)

\* the relay runs, c is connected and the queues have room for a transform
Room(c) ==
    /\ relayUp
    /\ c \in sessions
    /\ \A r \in (DOMAIN inbox) \cap sessions : Len(inbox[r]) + 1 <= MaxInbox

\* what a step leaves of client c when peer connection h is set aside: every
\* other connection, the table, the avatars but the one of peer id (which
\* stays in the scene), the video elements; and nothing is sent
Spared(c, h, id) ==
    /\ DOMAIN client'[c].pcs = DOMAIN client[c].pcs
    /\ \A i \in DOMAIN client[c].pcs : i # h => client'[c].pcs[i] = client[c].pcs[i]
    /\ client'[c].peerConnections = client[c].peerConnections
    /\ DOMAIN client'[c].remotes = DOMAIN client[c].remotes
    /\ \A r \in DOMAIN client[c].remotes :
          r # id => client'[c].remotes[r] = client[c].remotes[r]
    /\ client'[c].videoEls = client[c].videoEls
    /\ client'[c].localStream = client[c].localStream
    /\ UNCHANGED relayVars
    /\ Room(c)' = Room(c)

RECURSIVE Tally(_, _, _)
\* the sum of the field f over the connections of pcs for the peer id that
\* are not closed
Tally(pcs, id, f) ==
    IF pcs = <<>> THEN 0
    ELSE (IF Head(pcs).peer = id /\ ~Head(pcs).closed THEN Head(pcs)[f] ELSE 0)
         + Tally(Tail(pcs), id, f)

\* C29: over the connections a client holds open for one remote id, the
\* position handler calls createOffer at most once and emits at most one
\* rtc-offer, whatever transforms arrive from that remote and however the
\* suspended handlers run on; no connection, open or closed, sees a second
\* createOffer, so an attempt that failed is not made again.
C29_OneOffer ==
    \A c \in Clients :
        \A i \in DOMAIN client[c].pcs :
            LET id == client[c].pcs[i].peer
            IN  /\ Tally(client[c].pcs, id, "attempts") <= 1
                /\ Tally(client[c].pcs, id, "offers")
                       <= Tally(client[c].pcs, id, "attempts")
                /\ client[c].pcs[i].attempts <= 1

\* a client has just handled a transform from a remote it had already sent
\* its rtc-offer to
C29_Witness ==
    \E c \in Clients :
        /\ lastEvent.client = c
        /\ lastEvent.ev = "position"
        /\ lastEvent.arg.id \in DOMAIN client[c].peerConnections
        /\ PcOf(c, lastEvent.arg.id).offers = 1


\* every message was handled and no listener awaits an operation of a
\* connection, under both relays
Settled ==
    /\ \A c \in DOMAIN inbox : inbox[c] = <<>>
    /\ \A c \in DOMAIN inboxJs : inboxJs[c] = <<>>
    /\ \A c \in Clients :
          /\ \A i \in DOMAIN client[c].tasks : client[c].tasks[i].at = "media"
          /\ \A i \in DOMAIN clientJs[c].tasks : clientJs[c].tasks[i].at = "media"

\* the PeerLinks of a client: for each remote id the descriptions set on its
\* connection and whether it sends the local tracks
Links(st) ==
    [id \in DOMAIN st.peerConnections |->
        LET pc == st.pcs[st.peerConnections[id]]
        IN  [local |-> pc.local, remote |-> pc.remote, tracks |-> pc.tracks]]

\* C30: once everything is handled, every client has the same remote
\* avatars and the same PeerLinks under mingle_server.ts and under
\* mingle_server.js.
C30_SameState ==
    Settled =>
        \A c \in Clients :
            /\ client[c].remotes = clientJs[c].remotes
            /\ Links(client[c]) = Links(clientJs[c])


\* C31: a page whose initWebRTC threw has run initMovement all the same: the
\* interval is set and, once the socket is connected, every tick emits the
\* transform.
C31_MovementSurvives ==
    boot.webrtc = "failed" =>
        /\ boot.movement
        /\ (boot.id \in sessions) => ENABLED PageTick

\* the relay has just relayed a transform of a page whose initWebRTC threw
C31_Witness ==
    /\ boot.webrtc = "failed"
    /\ boot.notice
    /\ lastOp.op = "position"
    /\ lastOp.from = boot.id


(***************************************************************************)
(* Properties of the client across awaits.                                 *)
(***************************************************************************)
\* message m in flight to a client is about session x
Concerns(m, x) ==
    CASE m.ev = "position" -> m.arg.id = x
      [] m.ev = "disconnectClient" -> m.arg.id = x
      [] m.ev \in SignalEvents -> m.arg.from = x
      [] OTHER -> FALSE

\* session x has left and client c has handled all it was sent about x
Departed(c, x) ==
    /\ x \in used \ sessions
    /\ \A i \in DOMAIN inbox[c] : ~Concerns(inbox[c][i], x)

\* C32 (as claimed): once a session has left and a client has handled what it
\* was sent about it, the client has no avatar, no video element and no
\* PeerLink for that session, whatever listeners for it were suspended at an
\* await when the departure was handled and run on afterwards.
C32_DepartedStaysGone ==
    \A c \in Clients : \A x \in IdPool :
        Departed(c, x) =>
            /\ x \notin DOMAIN client[c].remotes
            /\ x \notin DOMAIN client[c].videoEls
            /\ x \notin DOMAIN client[c].peerConnections

\* the awaits a listener reaches after it has called createOffer or
\* createAnswer
Negotiating == {"createOffer", "setLocal", "createAnswer", "setLocalAnswer"}

\* C33 (as claimed): a peer connection whose createPeerConnection has not yet
\* come back from awaiting the local stream has no local description, and no
\* listener has called createOffer or createAnswer on it.
C33_TracksBeforeNegotiation ==
    \A c \in Clients : \A h \in DOMAIN client[c].pcs :
        ~client[c].pcs[h].wired =>
            /\ client[c].pcs[h].local = "none"
            /\ \A i \in DOMAIN client[c].tasks :
                  client[c].tasks[i].pc = h => client[c].tasks[i].at \notin Negotiating

\* C34 (as claimed): whenever no listener of a client is suspended, the avatar
\* of every remote is at the position of the transform received last from
\* that remote.
C34_AvatarShowsLatest ==
    \A c \in Clients :
        client[c].tasks = <<>> =>
            \A x \in DOMAIN client[c].remotes :
                client[c].remotes[x].position = client[c].latest[x]

\* C35 (as claimed): a client has at most one video element per remote id and
\* none without an avatar or a PeerLink for that id: none is left of a
\* session that has departed.
C35_OneVideoPerRemote ==
    \A c \in Clients : \A x \in DOMAIN client[c].videoEls :
        /\ client[c].videoEls[x] <= 1
        /\ x \in (DOMAIN client[c].remotes) \cup (DOMAIN client[c].peerConnections)

=============================================================================
